---- MODULE Spec2Model ----
(***************************************************************************)
(* A model of csrc/pw_wrapper.c: the PipeWire filter node of pw-comp.       *)
(*                                                                         *)
(* The control context calls create_pipewire_filter and                     *)
(* destroy_pipewire_filter; the host calls back on_process,                 *)
(* on_add_buffer and on_state_changed.  Every call the code makes into the  *)
(* host library, the C allocator or the Go side is recorded, in order, in   *)
(* `trace`, which holds the calls of the operation entered last.            *)
(*                                                                         *)
(* destroy_pipewire_filter runs one release call at a time, so that the     *)
(* host's callbacks can come between its calls for as long as the filter   *)
(* exists; pw_filter_destroy returns between quanta, never during one.     *)
(*                                                                         *)
(* Pointers are integers, NULL is 0.  Allocation of the node structure and  *)
(* of the two port arrays (calloc) is taken to succeed: the code does not   *)
(* test it.                                                                 *)
(***************************************************************************)
EXTENDS Integers, Sequences, FiniteSets, TLC

\* The range of int.
INT_MAX == 2147483647
INT_MIN == -INT_MAX - 1

\* ------------------------------------------------------------ bounds
MaxChannels == 3
MaxCycles == 2

\* Values of on_process's static counter that earlier quanta of the process
\* have left: next to the thresholds of the log throttle (20, 50, 100) and
\* at the end of int.
StartCounts == {18, 48, 98, INT_MAX}

\* --------------------------------------------------------- constants
NULL == 0
PW_DIRECTION_INPUT == "PW_DIRECTION_INPUT"
PW_DIRECTION_OUTPUT == "PW_DIRECTION_OUTPUT"
SPA_AUDIO_CHANNEL_MONO == "SPA_AUDIO_CHANNEL_MONO"
SPA_AUDIO_CHANNEL_FL == "SPA_AUDIO_CHANNEL_FL"
SPA_AUDIO_CHANNEL_FR == "SPA_AUDIO_CHANNEL_FR"

\* The main loop handle of the caller, and the pointers the host hands out.
LOOP == 1
PTR == 1

\* uint32_t sample_rate = 48000;
DefaultRate == 48000
\* sizeof(float)
SizeofFloat == 4

\* What the host supplies with a quantum: clock.duration and clock.rate.denom.
Durations == {64, 128}
Denoms == {0, 44100}
NoPosition == [present |-> FALSE, duration |-> 0, denom |-> 0]
Positions ==
    {NoPosition} \cup
    {[present |-> TRUE, duration |-> n, denom |-> r] : n \in Durations, r \in Denoms}

\* Three of enum pw_filter_state, as pw_filter_state_as_string names them.
FilterStates == {"error", "paused", "streaming"}
ErrorTexts == {"", "no target node"}

\* C's conversion from uint32_t to int, as the calls of process_channel_go
\* convert n_samples and sample_rate.
ToInt(u) == IF u > INT_MAX THEN (u - INT_MAX) + (INT_MIN - 1) ELSE u

\* process_cnt++ on an int; past INT_MAX it is taken to wrap.
Incr(c) == IF c = INT_MAX THEN INT_MIN ELSE c + 1

\* The host keeps one buffer and one sample block per port; they are named
\* by the port's pointer.
HostBuffer(port) == port
HostBlock(port) == port

VARIABLES
    data,         \* struct pw_filter_data, and the state of its memory
    ports,        \* the port_data of the ports the filter holds, by pointer
    handle,       \* what create_pipewire_filter returned to the caller
    ctl,          \* the control context: "init", "live", "failed",
                  \* "destroying", "destroyed"
    todo,         \* the calls destroy_pipewire_filter has still to make
    connected,    \* the host has the filter connected and delivers callbacks
    cycles,       \* the on_process invocations of this behaviour
    last_denom,   \* history: the last nonzero clock.rate.denom of a quantum
    process_cnt,  \* on_process's static counter
    rt,           \* the real-time context: on_process's position and locals
    pending,      \* output buffers the host created that were never queued
    call,         \* the operation entered last, with its arguments
    trace         \* the calls that operation has made, in order

vars == <<data, ports, handle, ctl, todo, connected, cycles, last_denom,
          process_cnt, rt, pending, call, trace>>

\* ------------------------------------------------------- get_channel_config
\* (mutant) the label of a node of more than two channels counts from 0.
get_channel_config_from0(i, total) ==
    IF total = 2
    THEN IF i = 0
         THEN [name |-> "FL", pos |-> SPA_AUDIO_CHANNEL_FL]
         ELSE [name |-> "FR", pos |-> SPA_AUDIO_CHANNEL_FR]
    ELSE IF total = 1
         THEN [name |-> "MONO", pos |-> SPA_AUDIO_CHANNEL_MONO]
         ELSE [name |-> "CH" \o ToString(i), pos |-> SPA_AUDIO_CHANNEL_MONO]

\* (mutant) the label of a node of more than two channels is made from the
\* channel count.
get_channel_config_total(i, total) ==
    IF total = 2
    THEN IF i = 0
         THEN [name |-> "FL", pos |-> SPA_AUDIO_CHANNEL_FL]
         ELSE [name |-> "FR", pos |-> SPA_AUDIO_CHANNEL_FR]
    ELSE IF total = 1
         THEN [name |-> "MONO", pos |-> SPA_AUDIO_CHANNEL_MONO]
         ELSE [name |-> "CH" \o ToString(total), pos |-> SPA_AUDIO_CHANNEL_MONO]

\* char *name and uint32_t *pos, as the call leaves them.
get_channel_config(i, total) ==
    IF total = 2
    THEN IF i = 0
         THEN [name |-> "FL", pos |-> SPA_AUDIO_CHANNEL_FL]
         ELSE [name |-> "FR", pos |-> SPA_AUDIO_CHANNEL_FR]
    ELSE IF total = 1
         THEN [name |-> "MONO", pos |-> SPA_AUDIO_CHANNEL_MONO]
         ELSE [name |-> "CH" \o ToString(i + 1), pos |-> SPA_AUDIO_CHANNEL_MONO]

\* ------------------------------------------------------- the node structure
\* calloc(1, sizeof(struct pw_filter_data)): every field zero.  in_slot and
\* out_slot are the contents of the arrays in_ports and out_ports point to,
\* in_mem and out_mem the state of the memory of these arrays.
NoData ==
    [mem |-> "none", loop |-> NULL, context |-> NULL, core |-> NULL,
     filter |-> NULL, in_ports |-> NULL, out_ports |-> NULL, channels |-> 0,
     in_slot |-> <<>>, out_slot |-> <<>>, in_mem |-> "none", out_mem |-> "none"]

CallocData == [NoData EXCEPT !.mem = "live"]

\* calloc(channels, sizeof(struct port_data*)): channels null slots, 0-based.
CallocSlots(channels) == [i \in 0..(channels - 1) |-> NULL]

\* ------------------------------------------------------------- trace events
Made(op, res, ok) == [op |-> op, res |-> res, ok |-> ok]
Released(op, res) == [op |-> op, res |-> res]
ReadField(field, mem) == [op |-> "read", res |-> field, freed |-> (mem = "freed")]
\* A read of slot i of a port array, and a store through a port pointer.
ReadSlot(array, i, mem) ==
    [op |-> "read", res |-> array, index |-> i, freed |-> (mem = "freed")]
WriteThrough(port, field) == [op |-> "write", res |-> "port_data", port |-> port, field |-> field]

\* ------------------------------------------------- destroy_pipewire_filter
\* The calls of destroy_pipewire_filter(h), in order.  d holds the fields as
\* the reads through the handle return them, mem the state of the memory
\* they are read from.
DestroyStep(d, mem, field, op) ==
    <<ReadField(field, mem)>> \o
    (IF d[field] # NULL THEN <<Released(op, field)>> ELSE <<>>)

\* (mutant) the handle is not tested.
destroy_pipewire_filter_unchecked(h, d, mem) ==
    DestroyStep(d, mem, "filter", "pw_filter_destroy")
    \o DestroyStep(d, mem, "core", "pw_core_disconnect")
    \o DestroyStep(d, mem, "context", "pw_context_destroy")
    \o DestroyStep(d, mem, "in_ports", "free")
    \o DestroyStep(d, mem, "out_ports", "free")
    \o <<Released("free", "data")>>

\* (mutant) the context is destroyed before the core is disconnected.
destroy_pipewire_filter_context_first(h, d, mem) ==
    IF h = NULL THEN <<>> ELSE
    DestroyStep(d, mem, "filter", "pw_filter_destroy")
    \o DestroyStep(d, mem, "context", "pw_context_destroy")
    \o DestroyStep(d, mem, "core", "pw_core_disconnect")
    \o DestroyStep(d, mem, "in_ports", "free")
    \o DestroyStep(d, mem, "out_ports", "free")
    \o <<Released("free", "data")>>

\* (mutant) the port arrays are freed before the filter is destroyed.
destroy_pipewire_filter_ports_first(h, d, mem) ==
    IF h = NULL THEN <<>> ELSE
    DestroyStep(d, mem, "in_ports", "free")
    \o DestroyStep(d, mem, "out_ports", "free")
    \o DestroyStep(d, mem, "filter", "pw_filter_destroy")
    \o DestroyStep(d, mem, "core", "pw_core_disconnect")
    \o DestroyStep(d, mem, "context", "pw_context_destroy")
    \o <<Released("free", "data")>>

destroy_pipewire_filter(h, d, mem) ==
    IF h = NULL THEN <<>> ELSE
    DestroyStep(d, mem, "filter", "pw_filter_destroy")
    \o DestroyStep(d, mem, "core", "pw_core_disconnect")
    \o DestroyStep(d, mem, "context", "pw_context_destroy")
    \o DestroyStep(d, mem, "in_ports", "free")
    \o DestroyStep(d, mem, "out_ports", "free")
    \o <<Released("free", "data")>>

\* -------------------------------------------------- create_pipewire_filter
\* The host's answers to one create call: the first step that fails
\* (<<"none", 0>>: none does), and apart from it whether pw_properties_new
\* returns a property set.
FailPoints(channels) ==
    {<<"none", 0>>, <<"context", 0>>, <<"core", 0>>, <<"filter", 0>>, <<"connect", 0>>}
    \cup {<<"in_port", i>> : i \in 0..(channels - 1)}
    \cup {<<"out_port", i>> : i \in 0..(channels - 1)}

\* A construction in progress: s.data the node structure, s.ports the ports
\* the filter holds, s.trace the calls made so far, s.ret the value returned
\* (meaningful once s.done).
Returned(s, ret) == [s EXCEPT !.done = TRUE, !.ret = ret]

\* destroy_pipewire_filter(data); return NULL;  The filter's ports go with
\* the filter.
Rollback(s) ==
    [done |-> TRUE, ret |-> NULL,
     data |-> [s.data EXCEPT !.mem = "freed", !.in_mem = "freed", !.out_mem = "freed"],
     ports |-> <<>>,
     trace |-> s.trace \o destroy_pipewire_filter(PTR, s.data, s.data.mem)]

\* (mutant) the two assignments are made before the port is tested.
add_port_unchecked(s, direction, i, cfg, ok) ==
    LET port_name == (IF direction = PW_DIRECTION_INPUT THEN "input_" ELSE "output_")
                     \o cfg.name
        ptr == IF ok THEN Len(s.ports) + 1 ELSE NULL
        slot == IF direction = PW_DIRECTION_INPUT THEN "in_slot" ELSE "out_slot"
        pd == [direction |-> direction, channel |-> i,
               host |-> [direction |-> direction, name |-> port_name, pos |-> cfg.pos]]
    IN [s EXCEPT !.data[slot][i] = ptr,
                 !.ports = IF ok THEN Append(@, pd) ELSE @,
                 !.trace = @ \o <<[op |-> "pw_filter_add_port", res |-> "port", ok |-> ok,
                                    direction |-> direction, name |-> port_name,
                                    pos |-> cfg.pos, port |-> ptr],
                                  WriteThrough(ptr, "direction"),
                                  WriteThrough(ptr, "channel")>>]

\* pw_filter_add_port for channel i and the two assignments into its
\* port_data; the slot holds NULL when the host returns none.  A port's
\* direction and channel are the fields of its port_data, its host part what
\* the host was given for it.
add_port(s, direction, i, cfg, ok) ==
    LET port_name == (IF direction = PW_DIRECTION_INPUT THEN "input_" ELSE "output_")
                     \o cfg.name
        ptr == IF ok THEN Len(s.ports) + 1 ELSE NULL
        slot == IF direction = PW_DIRECTION_INPUT THEN "in_slot" ELSE "out_slot"
        pd == [direction |-> direction, channel |-> i,
               host |-> [direction |-> direction, name |-> port_name, pos |-> cfg.pos]]
    IN [s EXCEPT !.data[slot][i] = ptr,
                 !.ports = IF ok THEN Append(@, pd) ELSE @,
                 !.trace = @ \o <<[op |-> "pw_filter_add_port", res |-> "port", ok |-> ok,
                                    direction |-> direction, name |-> port_name,
                                    pos |-> cfg.pos, port |-> ptr]>>
                             \o (IF ok THEN <<WriteThrough(ptr, "direction"),
                                              WriteThrough(ptr, "channel")>>
                                 ELSE <<>>)]

RECURSIVE create_ports(_, _, _, _)
create_ports(i, channels, s, failAt) ==
    IF i >= channels THEN s
    ELSE LET cfg == get_channel_config(i, channels)
             s1 == add_port(s, PW_DIRECTION_INPUT, i, cfg, failAt # <<"in_port", i>>)
         IN IF s1.data.in_slot[i] = NULL THEN Rollback(s1)
            ELSE LET s2 == add_port(s1, PW_DIRECTION_OUTPUT, i, cfg, failAt # <<"out_port", i>>)
                 IN IF s2.data.out_slot[i] = NULL THEN Rollback(s2)
                    ELSE create_ports(i + 1, channels, s2, failAt)

create_pipewire_filter(loop, channels, propsOk, failAt) ==
    IF loop = NULL
    THEN [done |-> TRUE, ret |-> NULL, data |-> NoData, ports |-> <<>>, trace |-> <<>>]
    ELSE
    LET s0 == [done |-> FALSE, ret |-> NULL, ports |-> <<>>,
               data |-> [CallocData EXCEPT !.loop = loop, !.channels = channels],
               trace |-> <<Made("calloc", "data", TRUE)>>]
        ctxOk == failAt # <<"context", 0>>
        s1 == [s0 EXCEPT !.data.context = IF ctxOk THEN PTR ELSE NULL,
                         !.trace = Append(@, Made("pw_context_new", "context", ctxOk))]
        coreOk == failAt # <<"core", 0>>
        s2 == [s1 EXCEPT !.data.core = IF coreOk THEN PTR ELSE NULL,
                         !.trace = Append(@, Made("pw_context_connect", "core", coreOk))]
        filterOk == failAt # <<"filter", 0>>
        s3 == [s2 EXCEPT !.data.filter = IF filterOk THEN PTR ELSE NULL,
                         !.trace = @ \o <<Made("pw_properties_new", "props", propsOk),
                                          Made("pw_filter_new", "filter", filterOk)>>]
        s4 == [s3 EXCEPT !.data.in_ports = PTR, !.data.out_ports = PTR,
                         !.data.in_mem = "live", !.data.out_mem = "live",
                         !.data.in_slot = CallocSlots(channels),
                         !.data.out_slot = CallocSlots(channels),
                         !.trace = @ \o <<[op |-> "pw_filter_add_listener", res |-> "listener"],
                                          Made("calloc", "in_ports", TRUE),
                                          Made("calloc", "out_ports", TRUE)>>]
        s5 == create_ports(0, channels, s4, failAt)
        connOk == failAt # <<"connect", 0>>
        s6 == [s5 EXCEPT !.trace = Append(@, Made("pw_filter_connect", "connect", connOk))]
    IN IF s1.data.context = NULL
       THEN [s1 EXCEPT !.done = TRUE, !.data.mem = "freed",
                       !.trace = Append(@, Released("free", "data"))]
       ELSE IF s2.data.core = NULL
       THEN [s2 EXCEPT !.done = TRUE, !.data.mem = "freed",
                       !.trace = @ \o <<Released("pw_context_destroy", "context"),
                                        Released("free", "data")>>]
       ELSE IF s3.data.filter = NULL
       THEN [s3 EXCEPT !.done = TRUE, !.data.mem = "freed",
                       !.trace = @ \o <<Released("pw_core_disconnect", "core"),
                                        Released("pw_context_destroy", "context"),
                                        Released("free", "data")>>]
       ELSE IF s5.done THEN s5
       ELSE IF ~connOk
       THEN Rollback([s6 EXCEPT !.trace = Append(@, [op |-> "log_from_c", res |-> "log",
                                                     msg |-> "Failed to connect filter"])])
       ELSE Returned(s6, PTR)

\* ------------------------------------------------------------------ Init
RtIdle == [pc |-> "idle", i |-> 0, n_samples |-> 0, sample_rate |-> 0]

Init ==
    /\ data = NoData
    /\ ports = <<>>
    /\ handle = NULL
    /\ ctl = "init"
    /\ todo = <<>>
    /\ connected = FALSE
    /\ cycles = 0
    /\ last_denom = 0
    /\ process_cnt = 0
    /\ rt = RtIdle
    /\ pending = {}
    /\ call = [op |-> "none"]
    /\ trace = <<>>

\* ------------------------------------------------------ the control context
\* The caller's one create_pipewire_filter(loop, channels).
Create ==
    /\ ctl = "init"
    /\ \E loop \in {NULL, LOOP}, channels \in 1..MaxChannels, propsOk \in BOOLEAN :
        \E failAt \in FailPoints(channels) :
            LET r == create_pipewire_filter(loop, channels, propsOk, failAt)
            IN /\ data' = r.data
               /\ ports' = r.ports
               /\ handle' = r.ret
               /\ ctl' = IF r.ret = NULL THEN "failed" ELSE "live"
               /\ connected' = (r.ret # NULL)
               /\ call' = [op |-> "create_pipewire_filter", loop |-> loop,
                           channels |-> channels, propsOk |-> propsOk, failAt |-> failAt]
               /\ trace' = r.trace
    /\ UNCHANGED <<todo, cycles, last_denom, process_cnt, rt, pending>>

\* The fields destroy_pipewire_filter tests.
DestroyFields == {"filter", "core", "context", "in_ports", "out_ports"}

\* Whether the calls release res.
Releases(calls, res) ==
    \E k \in 1..Len(calls) :
        calls[k].op \in {"pw_filter_destroy", "pw_core_disconnect", "pw_context_destroy", "free"}
        /\ calls[k].res = res

\* Whether the calls free the node structure.
FreesData(calls) == Releases(calls, "data")

\* The length of the next step of calls: the reads up to the first release
\* call, and that call.
StepLen(calls) ==
    IF \E k \in 1..Len(calls) : Releases(<<calls[k]>>, calls[k].res)
    THEN CHOOSE k \in 1..Len(calls) :
            /\ Releases(<<calls[k]>>, calls[k].res)
            /\ \A j \in 1..(k - 1) : ~Releases(<<calls[j]>>, calls[j].res)
    ELSE Len(calls)

\* destroy_pipewire_filter makes the next step of calls, after the calls
\* sofar; c is the state of the control context while it runs.
\* pw_filter_destroy ends the delivery of callbacks and takes the ports with
\* the filter; it returns only when no on_process invocation is running.
RunDestroy(calls, sofar, c) ==
    LET n == StepLen(calls)
        step == SubSeq(calls, 1, n)
        rest == SubSeq(calls, n + 1, Len(calls))
        Freed(mem, res) == IF Releases(step, res) /\ mem = "live" THEN "freed" ELSE mem
    IN /\ Releases(step, "filter") => rt.pc = "idle"
       /\ trace' = sofar \o step
       /\ todo' = rest
       /\ data' = [data EXCEPT !.mem = Freed(@, "data"),
                               !.in_mem = Freed(@, "in_ports"),
                               !.out_mem = Freed(@, "out_ports")]
       /\ ports' = IF Releases(step, "filter") THEN <<>> ELSE ports
       /\ connected' = IF Releases(step, "filter") THEN FALSE ELSE connected
       /\ ctl' = IF rest = <<>> /\ c = "destroying" THEN "destroyed" ELSE c

\* The caller's destroy_pipewire_filter(h), h null or the handle create
\* returned: the test of h and the first release call.  A handle already
\* destroyed points to freed memory: what a read through it returns is not
\* defined, and each field may read as null or as a pointer.
Destroy ==
    /\ rt.pc = "idle"
    /\ todo = <<>>
    /\ \E h \in {NULL, handle} :
        \E seen \in IF data.mem = "freed" THEN [DestroyFields -> {NULL, PTR}] ELSE {data} :
            /\ call' = [op |-> "destroy_pipewire_filter", handle |-> h, mem |-> data.mem]
            /\ RunDestroy(destroy_pipewire_filter(h, seen, data.mem), <<>>,
                          IF h # NULL /\ data.mem = "live" THEN "destroying" ELSE ctl)
    /\ UNCHANGED <<handle, cycles, last_denom, process_cnt, rt, pending>>

\* The next release call of a destroy_pipewire_filter in progress.
DestroyNext ==
    /\ todo # <<>>
    /\ RunDestroy(todo, trace, ctl)
    /\ UNCHANGED <<handle, cycles, last_denom, process_cnt, rt, pending, call>>

\* ------------------------------------------------------------- on_process
QueueBuffer(port, buf) == [op |-> "pw_filter_queue_buffer", port |-> port, buf |-> buf]
DequeueBuffer(port, buf) == [op |-> "pw_filter_dequeue_buffer", port |-> port, buf |-> buf]
GetDspBuffer(port, n, blk) ==
    [op |-> "pw_filter_get_dsp_buffer", port |-> port, n_samples |-> n, blk |-> blk]
ProcessChannelGo(in, out, samples, rate, i) ==
    [op |-> "process_channel_go", in |-> in, out |-> out, samples |-> samples,
     sample_rate |-> rate, channel_index |-> i]
Memset(blk, bytes) == [op |-> "memset", blk |-> blk, value |-> 0, bytes |-> bytes]
Log(kind, msg) == [op |-> "log_from_c", kind |-> kind, msg |-> msg]

\* if (in_buf) pw_filter_queue_buffer(data->in_ports[i], in_buf);
QueueIfPresent(port, buf) == IF buf # NULL THEN <<QueueBuffer(port, buf)>> ELSE <<>>

\* (mutant) the cycle summary is logged on every cycle.
SummaryLog_unthrottled(cnt, n_samples, sample_rate) ==
    <<Log("summary", [cnt |-> cnt, samples |-> n_samples, rate |-> sample_rate])>>

\* Lines 39-58: the counter, the position test, the cycle summary.  cnt is
\* process_cnt after the increment.
SummaryLog(cnt, n_samples, sample_rate) ==
    IF cnt < 20 \/ cnt % 100 = 0
    THEN <<Log("summary", [cnt |-> cnt, samples |-> n_samples, rate |-> sample_rate])>>
    ELSE <<>>

\* (mutant) the denominator is taken as the rate even when it is 0.
EffectiveRate_unchecked(position) == position.denom

\* Lines 42-49: the rate is 48000 unless the position has a denominator.
EffectiveRate(position) ==
    IF position.denom > 0 THEN position.denom ELSE DefaultRate

\* (mutant) the input buffer is not given back when there is no output buffer.
NoOutputBuffer_leak(cnt, i, in_port, in_buf) ==
    IF cnt < 50 /\ cnt % 10 = 0 THEN <<Log("warning", [ch |-> i])>> ELSE <<>>

\* Lines 71-79: no output buffer.
NoOutputBuffer(cnt, i, in_port, in_buf) ==
    (IF cnt < 50 /\ cnt % 10 = 0 THEN <<Log("warning", [ch |-> i])>> ELSE <<>>)
    \o QueueIfPresent(in_port, in_buf)

\* (mutant) the input buffer is not given back when the output block is
\* missing.
NoOutputBlock_noinput(in_port, in_buf, out_port, out_buf) ==
    <<QueueBuffer(out_port, out_buf)>>

\* (mutant) the output buffer is not given back when its block is missing.
NoOutputBlock_leak(in_port, in_buf, out_port, out_buf) ==
    QueueIfPresent(in_port, in_buf)

\* Lines 82-86: the output block was not acquired.
NoOutputBlock(in_port, in_buf, out_port, out_buf) ==
    <<QueueBuffer(out_port, out_buf)>> \o QueueIfPresent(in_port, in_buf)

\* (mutant) the silence path does not clear the output block.
DspStep_nozero(in, out, n_samples, sample_rate, i) ==
    IF in # NULL
    THEN <<ProcessChannelGo(in, out, ToInt(n_samples), ToInt(sample_rate), i)>>
    ELSE <<ProcessChannelGo(out, out, ToInt(n_samples), ToInt(sample_rate), i)>>

\* (mutant) the DSP step always runs in place on the output block.
DspStep_inplace(in, out, n_samples, sample_rate, i) ==
    IF in # NULL
    THEN <<ProcessChannelGo(out, out, ToInt(n_samples), ToInt(sample_rate), i)>>
    ELSE <<Memset(out, n_samples * SizeofFloat),
           ProcessChannelGo(out, out, ToInt(n_samples), ToInt(sample_rate), i)>>

\* Lines 93-98: the DSP step, on the input block or on silence.
DspStep(in, out, n_samples, sample_rate, i) ==
    IF in # NULL
    THEN <<ProcessChannelGo(in, out, ToInt(n_samples), ToInt(sample_rate), i)>>
    ELSE <<Memset(out, n_samples * SizeofFloat),
           ProcessChannelGo(out, out, ToInt(n_samples), ToInt(sample_rate), i)>>

\* Lines 100-101: both buffers go back after the DSP step.
RequeueBoth(in_port, in_buf, out_port, out_buf) ==
    QueueIfPresent(in_port, in_buf) \o <<QueueBuffer(out_port, out_buf)>>

\* Lines 62-101: one pass of the loop body, for channel i.  in_buf and
\* out_buf are what the two dequeues return, out and in what
\* pw_filter_get_dsp_buffer returns for the output and the input port.
process_channel(d, cnt, n_samples, sample_rate, i, in_buf, out_buf, out, in) ==
    LET in_port == d.in_slot[i]
        out_port == d.out_slot[i]
        head == <<DequeueBuffer(in_port, in_buf), DequeueBuffer(out_port, out_buf)>>
                \o (IF cnt < 20
                    THEN <<Log("channel", [ch |-> i, in |-> in_buf, out |-> out_buf])>>
                    ELSE <<>>)
        in_blk == IF in_buf # NULL THEN in ELSE NULL
    IN IF out_buf = NULL
       THEN head \o NoOutputBuffer(cnt, i, in_port, in_buf)
       ELSE IF out = NULL
       THEN head
            \o <<GetDspBuffer(out_port, n_samples, out)>>
            \o NoOutputBlock(in_port, in_buf, out_port, out_buf)
       ELSE head
            \o <<GetDspBuffer(out_port, n_samples, out)>>
            \o (IF in_buf # NULL THEN <<GetDspBuffer(in_port, n_samples, in)>> ELSE <<>>)
            \o DspStep(in_blk, out, n_samples, sample_rate, i)
            \o RequeueBoth(in_port, in_buf, out_port, out_buf)

\* The reads of the node at the head of a pass for channel i: the two array
\* pointers and slot i of each array.
PortReads(d, i) ==
    <<ReadField("in_ports", d.mem), ReadSlot("in_slot", i, d.in_mem),
      ReadField("out_ports", d.mem), ReadSlot("out_slot", i, d.out_mem)>>

\* i < data->channels, the test of the loop.
LoopTest(d) == <<ReadField("channels", d.mem)>>

\* The host enters on_process for a quantum: lines 39-61.
on_process_enter ==
    /\ connected
    /\ rt.pc = "idle"
    /\ cycles < MaxCycles
    /\ cycles' = cycles + 1
    /\ process_cnt' = Incr(process_cnt)
    /\ \E position \in Positions :
        /\ call' = [op |-> "on_process", position |-> position]
        /\ last_denom' = IF position.present /\ position.denom > 0
                         THEN position.denom ELSE last_denom
        /\ IF position.present
           THEN LET n_samples == position.duration
                    sample_rate == EffectiveRate(position)
                IN /\ trace' = SummaryLog(process_cnt', n_samples, sample_rate)
                                \o LoopTest(data)
                   /\ rt' = IF 0 < data.channels
                            THEN [pc |-> "loop", i |-> 0, n_samples |-> n_samples,
                                  sample_rate |-> sample_rate]
                            ELSE RtIdle
           ELSE /\ trace' = <<>>
                /\ rt' = RtIdle
    /\ UNCHANGED <<data, ports, handle, ctl, todo, connected, pending>>

\* One pass of the loop, lines 61-102, and the return after the last.
on_process_channel ==
    /\ rt.pc = "loop"
    /\ \E in_buf \in {NULL, HostBuffer(data.in_slot[rt.i])},
          out_buf \in {NULL, HostBuffer(data.out_slot[rt.i])},
          out \in {NULL, HostBlock(data.out_slot[rt.i])},
          in \in {NULL, HostBlock(data.in_slot[rt.i])} :
        trace' = trace \o PortReads(data, rt.i)
                 \o process_channel(data, process_cnt, rt.n_samples, rt.sample_rate,
                                    rt.i, in_buf, out_buf, out, in)
                 \o LoopTest(data)
    /\ rt' = IF rt.i + 1 < data.channels THEN [rt EXCEPT !.i = @ + 1] ELSE RtIdle
    /\ UNCHANGED <<data, ports, handle, ctl, todo, connected, cycles, last_denom,
                   process_cnt, pending, call>>

\* ----------------------------------------------------------- on_add_buffer
\* (mutant) the direction test is the wrong way round.
on_add_buffer_inverted(port_data, buffer) ==
    IF port_data = NULL \/ ports[port_data].direction # PW_DIRECTION_INPUT \/ buffer = NULL
    THEN <<>>
    ELSE <<QueueBuffer(port_data, buffer)>>

\* The calls of the hook for one buffer-created event.
on_add_buffer(port_data, buffer) ==
    IF port_data = NULL \/ ports[port_data].direction # PW_DIRECTION_OUTPUT \/ buffer = NULL
    THEN <<>>
    ELSE <<QueueBuffer(port_data, buffer)>>

\* The output buffers the host has created and the filter has not queued.
Unqueued(created, calls) ==
    {b \in created :
        \A k \in 1..Len(calls) :
            ~(calls[k].op = "pw_filter_queue_buffer" /\ <<calls[k].port, calls[k].buf>> = b)}

\* The host creates a buffer (or none) for a port and delivers the event.
AddBuffer ==
    /\ connected
    /\ rt.pc = "idle"
    /\ \E port_data \in {NULL} \cup (1..Len(ports)) :
        \E buffer \in {NULL, HostBuffer(IF port_data = NULL THEN PTR ELSE port_data)} :
            /\ call' = [op |-> "on_add_buffer", port_data |-> port_data, buffer |-> buffer]
            /\ trace' = on_add_buffer(port_data, buffer)
            /\ pending' =
                 Unqueued(pending \cup
                          (IF port_data # NULL /\ buffer # NULL
                              /\ ports[port_data].host.direction = PW_DIRECTION_OUTPUT
                           THEN {<<port_data, buffer>>} ELSE {}),
                          trace')
    /\ UNCHANGED <<data, ports, handle, ctl, todo, connected, cycles, last_denom,
                   process_cnt, rt>>

\* -------------------------------------------------------- on_state_changed
\* (mutant) the error text is not logged.
on_state_changed_noerror(old, state, error) ==
    <<Log("state", "State change: " \o old \o " -> " \o state)>>

\* (mutant) a change to the error state tears the filter down.
on_state_changed_fatal(old, state, error) ==
    <<Log("state", "State change: " \o old \o " -> " \o state)>>
    \o (IF error # "" THEN <<Log("error", "Error: " \o error)>> ELSE <<>>)
    \o (IF state = "error" THEN <<Released("pw_filter_destroy", "filter")>> ELSE <<>>)

\* The calls of the hook for one event; the error text "" stands for a null
\* error pointer.
on_state_changed(old, state, error) ==
    <<Log("state", "State change: " \o old \o " -> " \o state)>>
    \o (IF error # "" THEN <<Log("error", "Error: " \o error)>> ELSE <<>>)

\* The host reports a change of the filter's state, with or without an
\* error text.
StateChanged ==
    /\ connected
    /\ rt.pc = "idle"
    /\ \E old \in FilterStates, error \in ErrorTexts :
       \E state \in FilterStates \ {old} :
        /\ call' = [op |-> "on_state_changed", old |-> old, state |-> state, error |-> error]
        /\ trace' = on_state_changed(old, state, error)
    /\ UNCHANGED <<data, ports, handle, ctl, todo, connected, cycles, last_denom,
                   process_cnt, rt, pending>>

Next ==
    \/ Create
    \/ Destroy
    \/ DestroyNext
    \/ on_process_enter
    \/ on_process_channel
    \/ AddBuffer
    \/ StateChanged

Spec == Init /\ [][Next]_vars

\* The same node in a process whose earlier nodes have run quanta: the
\* counter is static and outlives them.
InitCnt ==
    /\ data = NoData
    /\ ports = <<>>
    /\ handle = NULL
    /\ ctl = "init"
    /\ todo = <<>>
    /\ connected = FALSE
    /\ cycles = 0
    /\ last_denom = 0
    /\ process_cnt \in StartCounts
    /\ rt = RtIdle
    /\ pending = {}
    /\ call = [op |-> "none"]
    /\ trace = <<>>

SpecCnt == InitCnt /\ [][Next]_vars

\* ======================================================== the claims
\* The places in the trace of the calls named op.
Ks(op) == {k \in 1..Len(trace) : trace[k].op = op}
Dequeues == Ks("pw_filter_dequeue_buffer")
Queues == Ks("pw_filter_queue_buffer")
Acquires == Ks("pw_filter_get_dsp_buffer")
DspCalls == Ks("process_channel_go")
Memsets == Ks("memset")

\* The operation entered last is on_process with a position.
InProcess == call.op = "on_process" /\ call.position.present

\* The channel whose slot holds port p, and whether p is an output port.
SlotOf(p) ==
    CHOOSE i \in 0..(data.channels - 1) : data.in_slot[i] = p \/ data.out_slot[i] = p
IsOutPort(p) == \E i \in 0..(data.channels - 1) : data.out_slot[i] = p
IsInPort(p) == \E i \in 0..(data.channels - 1) : data.in_slot[i] = p

\* The places where buffer buf is queued to port p.
QueuedAt(p, buf) == {k \in Queues : trace[k].port = p /\ trace[k].buf = buf}

\* C1: in on_process with a position, every buffer dequeued for a channel is
\* queued exactly once, to the port it came from, after its dequeue and
\* before any dequeue of a later channel (and so before the return); and
\* nothing is queued that was not dequeued from that port.
C1_BufferConservation ==
    InProcess =>
        /\ \A j \in Dequeues :
             trace[j].buf # NULL =>
                /\ Cardinality(QueuedAt(trace[j].port, trace[j].buf)) = 1
                /\ \A k \in QueuedAt(trace[j].port, trace[j].buf) :
                     /\ j < k
                     /\ \A m \in Dequeues :
                          SlotOf(trace[m].port) > SlotOf(trace[j].port) => k < m
        /\ \A k \in Queues :
             \E j \in Dequeues :
                /\ j < k
                /\ trace[j].port = trace[k].port
                /\ trace[j].buf = trace[k].buf
                /\ trace[j].buf # NULL

\* A returned two-channel (or wider) quantum in which one channel had an
\* input buffer but no output buffer, and another lost its output block
\* after both of its buffers were dequeued.
C1_Witness ==
    /\ InProcess
    /\ rt.pc = "idle"
    /\ \E j \in Dequeues, m \in Dequeues :
         /\ IsInPort(trace[j].port) /\ trace[j].buf # NULL
         /\ trace[m].port = data.out_slot[SlotOf(trace[j].port)] /\ trace[m].buf = NULL
    /\ \E g \in Acquires, j \in Dequeues :
         /\ IsOutPort(trace[g].port) /\ trace[g].blk = NULL
         /\ trace[j].port = data.in_slot[SlotOf(trace[g].port)] /\ trace[j].buf # NULL

\* C2: when the output dequeue of a channel returns nothing, the channel's
\* input buffer, if one was dequeued, is queued back once, and no block is
\* acquired, nothing is zero-filled and no DSP step is made for the channel.
C2_NoOutputBufferSkipsChannel ==
    InProcess =>
        \A j \in Dequeues :
            (IsOutPort(trace[j].port) /\ trace[j].buf = NULL) =>
                LET c == SlotOf(trace[j].port)
                    in_port == data.in_slot[c]
                    out_port == data.out_slot[c]
                IN /\ \A g \in Acquires : trace[g].port \notin {in_port, out_port}
                   /\ \A z \in Memsets :
                        trace[z].blk \notin {HostBlock(in_port), HostBlock(out_port)}
                   /\ \A k \in DspCalls : trace[k].channel_index # c
                   /\ \A d \in Dequeues :
                        (trace[d].port = in_port /\ trace[d].buf # NULL) =>
                            Cardinality(QueuedAt(in_port, trace[d].buf)) = 1
                   /\ QueuedAt(out_port, HostBuffer(out_port)) = {}

\* A channel whose input buffer was dequeued and whose output dequeue
\* returned nothing, the last channel of a returned quantum.
C2_Witness ==
    /\ InProcess
    /\ rt.pc = "idle"
    /\ \E j \in Dequeues, d \in Dequeues :
         /\ trace[j].port = data.out_slot[data.channels - 1] /\ trace[j].buf = NULL
         /\ trace[d].port = data.in_slot[data.channels - 1] /\ trace[d].buf # NULL

\* C3: when a channel's output block was acquired and no input block is
\* there (no input buffer, or its block was not acquired), the whole output
\* block is zero-filled once, and after that one DSP step is made for the
\* channel, with the output block as input and as output.
C3_SilenceFallback ==
    InProcess =>
        \A g \in Acquires :
            (IsOutPort(trace[g].port) /\ trace[g].blk # NULL) =>
                LET c == SlotOf(trace[g].port)
                    out == trace[g].blk
                    noInput == \A k \in Acquires :
                                  trace[k].port = data.in_slot[c] => trace[k].blk = NULL
                    steps == {k \in DspCalls : trace[k].channel_index = c}
                    zeros == {z \in Memsets : trace[z].blk = out}
                IN noInput =>
                    /\ Cardinality(steps) = 1
                    /\ Cardinality(zeros) = 1
                    /\ \A k \in steps, z \in zeros :
                         /\ g < z /\ z < k
                         /\ trace[z].value = 0
                         /\ trace[z].bytes = call.position.duration * SizeofFloat
                         /\ trace[k].in = out
                         /\ trace[k].out = out

\* A quantum with a channel that had no input buffer and a channel whose
\* input buffer was dequeued but whose input block was not acquired, both
\* with their output block.
C3_Witness ==
    /\ InProcess
    /\ \E j \in Dequeues, g \in Acquires :
         /\ IsInPort(trace[j].port) /\ trace[j].buf = NULL
         /\ trace[g].port = data.out_slot[SlotOf(trace[j].port)] /\ trace[g].blk # NULL
    /\ \E g \in Acquires, h \in Acquires :
         /\ IsInPort(trace[g].port) /\ trace[g].blk = NULL
         /\ trace[h].port = data.out_slot[SlotOf(trace[g].port)] /\ trace[h].blk # NULL
    /\ Memsets # {}

\* Every dequeue of a returned quantum gave a buffer and every block was
\* acquired.
FullyConnected ==
    /\ InProcess
    /\ rt.pc = "idle"
    /\ \A j \in Dequeues : trace[j].buf # NULL
    /\ \A g \in Acquires : trace[g].blk # NULL

IsDspCall(e) == e.op = "process_channel_go"

\* C4: a fully connected quantum of an N-channel node makes N DSP steps, in
\* channel order 0..N-1, each with its channel's index, the quantum's
\* duration as sample count and the channel's own input and output block,
\* which differ; and all 2N buffers are queued back before the return.
C4_FullyConnectedQuantum ==
    FullyConnected =>
        LET dsp == SelectSeq(trace, IsDspCall)
            N == data.channels
        IN /\ Len(dsp) = N
           /\ \A k \in 1..N :
                /\ dsp[k].channel_index = k - 1
                /\ dsp[k].samples = call.position.duration
                /\ dsp[k].in = HostBlock(data.in_slot[k - 1])
                /\ dsp[k].out = HostBlock(data.out_slot[k - 1])
                /\ dsp[k].in # dsp[k].out
           /\ Cardinality(Queues) = 2 * N
           /\ \A i \in 0..(N - 1) :
                /\ Cardinality(QueuedAt(data.in_slot[i], HostBuffer(data.in_slot[i]))) = 1
                /\ Cardinality(QueuedAt(data.out_slot[i], HostBuffer(data.out_slot[i]))) = 1

\* A fully connected quantum of a node with two channels and 128 samples.
C4_Witness ==
    /\ FullyConnected
    /\ data.channels = 2
    /\ call.position.duration = 128
    /\ Cardinality(DspCalls) = 2

\* The calls of create_pipewire_filter that make something, those that
\* release something, and what the code has to release itself (the property
\* set and the ports belong to the filter).
CreateOps ==
    {"calloc", "pw_context_new", "pw_context_connect", "pw_properties_new",
     "pw_filter_new", "pw_filter_add_port", "pw_filter_connect"}
ReleaseOps == {"pw_filter_destroy", "pw_core_disconnect", "pw_context_destroy", "free"}
Owned == {"data", "context", "core", "filter", "in_ports", "out_ports"}

InCreate == call.op = "create_pipewire_filter" /\ call.loop # NULL
StepFailed == \E k \in 1..Len(trace) : trace[k].op \in CreateOps /\ ~trace[k].ok
IsCreated(e) == e.op \in CreateOps /\ e.ok /\ e.res \in Owned
IsReleased(e) == e.op \in ReleaseOps
ResOf(events) == [k \in 1..Len(events) |-> events[k].res]
Reverse(q) == [k \in 1..Len(q) |-> q[Len(q) + 1 - k]]

\* C5: create is all or nothing: a failure of any step (context, core, node
\* properties, filter, a port, connect) makes it return NULL, with everything
\* made before released once, in the reverse of the order it was made in; a
\* handle is returned only when every step succeeded.
C5_CreateAllOrNothing ==
    InCreate =>
        /\ StepFailed => handle = NULL
        /\ handle # NULL => ~StepFailed /\ SelectSeq(trace, IsReleased) = <<>>
        /\ handle = NULL =>
              ResOf(SelectSeq(trace, IsReleased)) = Reverse(ResOf(SelectSeq(trace, IsCreated)))

\* C6: a second destroy of a handle already destroyed does nothing: it
\* releases nothing again and reads no field of the freed node structure.
C6_DestroyIdempotent ==
    (call.op = "destroy_pipewire_filter" /\ call.handle # NULL /\ call.mem = "freed") =>
        trace = <<>>

\* C7: destroy of a null handle releases nothing, reads nothing and logs
\* nothing, and leaves the node as it was; create with a null loop returns
\* NULL and makes nothing.
C7_NullHandleNoOp ==
    /\ (call.op = "destroy_pipewire_filter" /\ call.handle = NULL) =>
          /\ trace = <<>>
          /\ data.mem = call.mem
          /\ (data.mem = "live") = (ctl = "live")
          /\ (ctl = "live" => Len(ports) = 2 * data.channels)
    /\ (call.op = "create_pipewire_filter" /\ call.loop = NULL) =>
          /\ handle = NULL
          /\ trace = <<>>
          /\ data = NoData
          /\ ports = <<>>

\* create with a null loop has returned NULL and made nothing, and the
\* destroy(NULL) that followed has done nothing.
C7_Witness ==
    /\ call.op = "destroy_pipewire_filter"
    /\ call.handle = NULL
    /\ ctl = "failed"
    /\ handle = NULL
    /\ data = NoData

\* The label and the position tag the policy gives channel i of N.
PolicyLabel(i, N) ==
    IF N = 1 THEN "MONO"
    ELSE IF N = 2 THEN (IF i = 0 THEN "FL" ELSE "FR")
    ELSE "CH" \o ToString(i + 1)

PortPrefix(direction) == IF direction = PW_DIRECTION_INPUT THEN "input_" ELSE "output_"

C9_PortSet ==
    ctl = "live" =>
        LET N == data.channels
            Slots == 0..(N - 1)
        IN /\ Len(ports) = 2 * N
           /\ DOMAIN data.in_slot = Slots
           /\ DOMAIN data.out_slot = Slots
           /\ {data.in_slot[i] : i \in Slots} \cup {data.out_slot[i] : i \in Slots}
                 = 1..(2 * N)
           /\ \A i \in Slots :
                /\ ports[data.in_slot[i]].direction = PW_DIRECTION_INPUT
                /\ ports[data.in_slot[i]].host.direction = PW_DIRECTION_INPUT
                /\ ports[data.in_slot[i]].channel = i
                /\ ports[data.out_slot[i]].direction = PW_DIRECTION_OUTPUT
                /\ ports[data.out_slot[i]].host.direction = PW_DIRECTION_OUTPUT
                /\ ports[data.out_slot[i]].channel = i
           /\ \A p \in 1..(2 * N), q \in 1..(2 * N) :
                p # q => ports[p].host.name # ports[q].host.name
           /\ \A p \in 1..(2 * N) :
                \E i \in Slots :
                    ports[p].host.name \in {"input_" \o PolicyLabel(i, N),
                                            "output_" \o PolicyLabel(i, N)}

\* A node of three channels after a quantum, a buffer-created event or a
\* state change was handled: its six ports are as create left them.
C9_Witness ==
    /\ ctl = "live"
    /\ data.channels = 3
    /\ Len(ports) = 6
    /\ call.op = "on_process"
    /\ rt.pc = "idle"
    /\ Queues # {}

\* C10: the buffer-created hook queues the buffer of an event for an output
\* port once, to that port, and queues nothing for an input port, for null
\* port data or for a null buffer; so no output buffer the host created is
\* still unqueued when a process callback runs.
C10_AddBufferQueuesOutput ==
    /\ (ctl = "live" /\ call.op = "on_add_buffer") =>
          IF /\ call.port_data # NULL
             /\ call.buffer # NULL
             /\ ports[call.port_data].host.direction = PW_DIRECTION_OUTPUT
          THEN /\ Len(trace) = 1
               /\ trace[1].op = "pw_filter_queue_buffer"
               /\ trace[1].port = call.port_data
               /\ trace[1].buf = call.buffer
          ELSE trace = <<>>
    /\ call.op = "on_process" => pending = {}

\* The hook has queued the buffer created for the output port of the last
\* channel of a node of two channels.
C10_Witness ==
    /\ ctl = "live"
    /\ call.op = "on_add_buffer"
    /\ data.channels = 2
    /\ call.port_data = data.out_slot[1]
    /\ call.buffer # NULL
    /\ Queues # {}

\* The places in the trace of the messages of one kind.
LogsOf(kind) == {k \in Ks("log_from_c") : trace[k].kind = kind}

\* C11: every state-changed event is logged, whatever the cycle counter and
\* whatever was logged before: one message naming the old and the new
\* state, and after it one message with the error text exactly when the
\* event has an error text; nothing else.
C11_StateChangeLogged ==
    call.op = "on_state_changed" =>
        /\ Len(trace) = (IF call.error # "" THEN 2 ELSE 1)
        /\ trace[1] = Log("state", "State change: " \o call.old \o " -> " \o call.state)
        /\ call.error # "" => trace[2] = Log("error", "Error: " \o call.error)

\* A change to the error state with an error text, logged with both
\* messages after quanta whose counter was past every unconditional cycle
\* and whose summary was not logged.
C11_Witness ==
    /\ call.op = "on_state_changed"
    /\ call.state = "error"
    /\ call.error # ""
    /\ Len(trace) = 2
    /\ cycles > 0
    /\ process_cnt > 20
    /\ process_cnt % 100 # 0

\* The channels whose pass is in the trace.
Visited == {SlotOf(trace[j].port) : j \in Dequeues}

\* The output dequeue of channel c returned nothing.
NoOutBuf(c) == \E j \in Dequeues : trace[j].port = data.out_slot[c] /\ trace[j].buf = NULL

\* C12: an on_process invocation with a position, numbered c by the
\* counter, logs its cycle summary (once, with c, the quantum's sample count
\* and rate) exactly when c < 20 or c is a multiple of 100; it logs the
\* detail line of a channel exactly when c < 20; and it logs the
\* missing-output warning of a channel only when c < 50, c is a multiple of
\* 10 and the channel's output dequeue returned nothing.
C12_LogThrottle ==
    InProcess =>
        LET c == process_cnt
        IN /\ Cardinality(LogsOf("summary")) = (IF c < 20 \/ c % 100 = 0 THEN 1 ELSE 0)
           /\ \A k \in LogsOf("summary") :
                trace[k].msg = [cnt |-> c, samples |-> call.position.duration,
                                rate |-> EffectiveRate(call.position)]
           /\ \A i \in Visited :
                Cardinality({k \in LogsOf("channel") : trace[k].msg.ch = i})
                    = (IF c < 20 THEN 1 ELSE 0)
           /\ \A k \in LogsOf("channel") : trace[k].msg.ch \in Visited
           /\ \A k \in LogsOf("warning") :
                /\ c < 50
                /\ c % 10 = 0
                /\ NoOutBuf(trace[k].msg.ch)
           /\ \A i \in Visited :
                Cardinality({k \in LogsOf("warning") : trace[k].msg.ch = i}) <= 1

\* Cycle 100 has returned: its summary is logged, no detail line is, and a
\* channel without output buffer got no warning.
C12_Witness ==
    /\ InProcess
    /\ rt.pc = "idle"
    /\ process_cnt = 100
    /\ Cardinality(LogsOf("summary")) = 1
    /\ LogsOf("channel") = {}
    /\ \E i \in Visited : NoOutBuf(i)
    /\ LogsOf("warning") = {}

\* C13: an on_process invocation without a position does nothing: it makes
\* no call (no dequeue, no DSP step, no message) and changes no state a
\* later invocation depends on, the cycle counter included.
C13_AbsentPositionNoOp ==
    [][(call'.op = "on_process" /\ ~call'.position.present /\ cycles' # cycles) =>
          /\ trace' = <<>>
          /\ UNCHANGED <<data, ports, handle, ctl, todo, connected, pending, rt>>
          /\ process_cnt' = process_cnt]_vars

\* create has failed at a port.
PortFailure == InCreate /\ call.failAt[1] \in {"in_port", "out_port"}

\* The places in the trace where res is released.
ReleasesOf(res) == {k \in 1..Len(trace) : IsReleased(trace[k]) /\ trace[k].res = res}

\* C14: when create fails at a port after k of the 2N ports were made (the
\* input or the output port of any channel), it makes no further port,
\* returns NULL, and releases the filter (and with it the k ports), the
\* core, the context, both port arrays and the node structure once each,
\* after the failed call; every store through a port pointer goes through
\* a port made before, none through a null slot; and the rollback reads
\* fields of the node structure only, before it is freed.
C14_PartialPortRollback ==
    PortFailure =>
        LET i == call.failAt[2]
            k == 2 * i + (IF call.failAt[1] = "out_port" THEN 1 ELSE 0)
            adds == Ks("pw_filter_add_port")
            made == {a \in adds : trace[a].ok}
        IN /\ handle = NULL
           /\ Cardinality(made) = k
           /\ Cardinality(adds) = k + 1
           /\ \A res \in Owned :
                /\ Cardinality(ReleasesOf(res)) = 1
                /\ \A r \in ReleasesOf(res), a \in adds : a < r
           /\ ports = <<>>
           /\ data.mem = "freed" /\ data.in_mem = "freed" /\ data.out_mem = "freed"
           /\ \A w \in Ks("write") :
                /\ trace[w].port # NULL
                /\ \E a \in made : a < w /\ trace[a].port = trace[w].port
           /\ \A r \in Ks("read") :
                /\ trace[r].res \in DestroyFields
                /\ ~trace[r].freed
                /\ \A f \in ReleasesOf("data") : r < f

\* create for three channels has failed at the output port of the second
\* channel, after three ports were made, and has rolled back.
C14_Witness ==
    /\ PortFailure
    /\ call.channels = 3
    /\ call.failAt = <<"out_port", 1>>
    /\ Cardinality({a \in Ks("pw_filter_add_port") : trace[a].ok}) = 3
    /\ ReleasesOf("filter") # {}
    /\ ports = <<>>

\* The output block of channel c was asked for and not acquired.
OutBlockFailed(c) ==
    \E g \in Acquires : trace[g].port = data.out_slot[c] /\ trace[g].blk = NULL

\* The DSP steps of channel c.
StepsOf(c) == {k \in DspCalls : trace[k].channel_index = c}

\* C15: a channel whose output block is not acquired gets its output
\* buffer queued back once and its input buffer, if one was dequeued,
\* queued back once, and no DSP step; the loop goes on to every later
\* channel; and every channel that has its output buffer and block gets
\* exactly one DSP step and both buffers back, whatever failed on the other
\* channels.  The same holds for a channel without output buffer.
C15_ChannelFailureLocal ==
    InProcess =>
        LET N == data.channels
        IN /\ Visited = 0..((IF rt.pc = "idle" THEN N ELSE rt.i) - 1)
           /\ \A c \in Visited :
                LET in_port == data.in_slot[c]
                    out_port == data.out_slot[c]
                    inBufs == {j \in Dequeues : trace[j].port = in_port /\ trace[j].buf # NULL}
                    inBack == QueuedAt(in_port, HostBuffer(in_port))
                    outBack == QueuedAt(out_port, HostBuffer(out_port))
                IN /\ Cardinality(inBack) = Cardinality(inBufs)
                   /\ Cardinality(inBufs) <= 1
                   /\ IF NoOutBuf(c)
                      THEN StepsOf(c) = {} /\ outBack = {}
                      ELSE IF OutBlockFailed(c)
                      THEN /\ StepsOf(c) = {}
                           /\ Cardinality(outBack) = 1
                           /\ \A g \in Acquires : trace[g].port # in_port
                           /\ \A z \in Memsets : trace[z].blk # HostBlock(out_port)
                      ELSE /\ Cardinality(StepsOf(c)) = 1
                           /\ Cardinality(outBack) = 1
                           /\ \A k \in StepsOf(c) : trace[k].out = HostBlock(out_port)

\* A returned quantum of three channels: the first lost its output block
\* after both its buffers were dequeued, the second had no output buffer,
\* and the third made its DSP step.
C15_Witness ==
    /\ InProcess
    /\ rt.pc = "idle"
    /\ data.channels = 3
    /\ OutBlockFailed(0)
    /\ \E j \in Dequeues : trace[j].port = data.in_slot[0] /\ trace[j].buf # NULL
    /\ NoOutBuf(1)
    /\ StepsOf(0) = {} /\ StepsOf(1) = {}
    /\ Cardinality(StepsOf(2)) = 1

\* The rate the code gives the DSP steps of a quantum.
RatesPassed == {trace[k].sample_rate : k \in DspCalls}

\* C16 as stated: the DSP steps of a quantum get the denominator of the
\* position when it is not 0, else the last denominator that was not 0 of
\* an earlier quantum, else 48000.
C16_EffectiveRate_AsStated ==
    InProcess =>
        \A r \in RatesPassed :
            r = (IF call.position.denom # 0 THEN call.position.denom
                 ELSE IF last_denom # 0 THEN last_denom
                 ELSE DefaultRate)

\* C16 amended: the DSP steps of a quantum get the denominator of the
\* position when it is not 0, else 48000, whatever earlier quanta supplied.
C16_EffectiveRate ==
    InProcess =>
        \A r \in RatesPassed :
            r = (IF call.position.denom # 0 THEN call.position.denom ELSE DefaultRate)

\* A quantum without denominator after a quantum that had 44100: its DSP
\* step got 48000.
C16_Witness ==
    /\ InProcess
    /\ call.position.denom = 0
    /\ last_denom = 44100
    /\ RatesPassed = {DefaultRate}

\* The order destroy_pipewire_filter releases in, and the call for each.
DestroyOrder == <<"filter", "core", "context", "in_ports", "out_ports", "data">>
ReleaseOp(res) ==
    CASE res = "filter" -> "pw_filter_destroy"
      [] res = "core" -> "pw_core_disconnect"
      [] res = "context" -> "pw_context_destroy"
      [] OTHER -> "free"

\* The node has res: the node structure itself, or a field that is set.
Has(res) == res = "data" \/ data[res] # NULL

\* The releases of the trace are the first of those due, in order, and -
\* once destroy has returned - all of them; each field is read, from live
\* memory, before it is released; and nothing follows the free of the node
\* structure.
ReleasedInOrder ==
    LET due == SelectSeq(DestroyOrder, Has)
        rel == SelectSeq(trace, IsReleased)
    IN /\ Len(rel) <= Len(due)
       /\ \A k \in 1..Len(rel) :
            rel[k].res = due[k] /\ rel[k].op = ReleaseOp(due[k])
       /\ todo = <<>> => Len(rel) = Len(due)
       /\ \A r \in Ks("read") : ~trace[r].freed
       /\ \A res \in DestroyFields :
            \A k \in ReleasesOf(res) :
                \E r \in Ks("read") : r < k /\ trace[r].res = res
       /\ \A f \in ReleasesOf("data") : f = Len(trace)

\* C17: destroy of a handle to a constructed node, by the caller or by the
\* rollback of create at a port or at connect, destroys the filter,
\* disconnects the core, destroys the context, frees the two port arrays
\* and frees the node structure, in this order, each for a resource that
\* was made and for no other; the node structure is freed last, after the
\* last read of a field.
C17_TeardownOrder ==
    /\ (call.op = "destroy_pipewire_filter" /\ call.handle # NULL /\ call.mem = "live")
          => ReleasedInOrder
    /\ (InCreate /\ call.failAt[1] \in {"in_port", "out_port", "connect"}) =>
          LET from == CHOOSE k \in 1..Len(trace) :
                         trace[k].op \in CreateOps /\ trace[k].res # "props" /\ ~trace[k].ok
              rel == SelectSeq(trace, IsReleased)
          IN /\ ResOf(rel) = DestroyOrder
             /\ \A k \in 1..Len(rel) : rel[k].op = ReleaseOp(rel[k].res)
             /\ \A k \in 1..Len(trace) : IsReleased(trace[k]) => from < k
             /\ \A r \in Ks("read") : ~trace[r].freed
             /\ \A f \in ReleasesOf("data") : f = Len(trace)

\* destroy of a live node of two channels has returned: six releases.
C17_Witness ==
    /\ call.op = "destroy_pipewire_filter"
    /\ call.handle # NULL
    /\ call.mem = "live"
    /\ todo = <<>>
    /\ ctl = "destroyed"
    /\ data.channels = 2
    /\ Cardinality(Ks("free")) = 3
    /\ ReleasesOf("filter") # {}

\* C18: a state-changed event, to the error state or not, with an error
\* text or not, makes log calls only and leaves the node structure, the
\* ports, the handle, the delivery of callbacks, the counter and the loop
\* state as they were, so that the next quantum is handled as without it.
C18_StateChangeNotFatal ==
    [][call'.op = "on_state_changed" =>
          /\ UNCHANGED <<data, ports, handle, ctl, todo, connected, cycles, last_denom,
                         process_cnt, rt, pending>>
          /\ \A k \in 1..Len(trace') : trace'[k].op = "log_from_c"]_vars

\* A change from streaming to the error state with an error text was
\* handled by a live node of two channels, which has all its ports.
C18_Witness ==
    /\ call.op = "on_state_changed"
    /\ call.old = "streaming"
    /\ call.state = "error"
    /\ call.error # ""
    /\ connected
    /\ data.mem = "live"
    /\ data.channels = 2
    /\ Len(ports) = 4

\* C19: whatever the number of invocations, the wrap of the counter
\* included, two quanta in a row both log their summary only among the
\* first cycles, those the counter numbers 1 to 19.
C19_ThrottleSurvivesWrap ==
    [][(/\ InProcess
        /\ LogsOf("summary") # {}
        /\ call'.op = "on_process"
        /\ cycles' = cycles + 1
        /\ \E k \in 1..Len(trace') :
              trace'[k].op = "log_from_c" /\ trace'[k].kind = "summary")
       => process_cnt' \in 1..19]_vars

====
